---------------------------- MODULE Spec2Model ----------------------------
(***************************************************************************)
(* Question-sourcing pipeline of TruthTeller-AI                            *)
(* (src/src/services/aiQuestionService.js, last revision of the service:   *)
(* generateQuestionsWithAI, generateFallbackQuestions, saveQuestionsToRepo,*)
(* saveQuestionsViaCommit, loadQuestionsFromRepo, filterQuestionsFromRepo).*)
(*                                                                         *)
(* Encoding of JavaScript values:                                          *)
(*   - a JSON scalar is the text of its literal ("2", "true", "undefined");*)
(*   - a string that the code inspects character-wise (a question text) is *)
(*     a sequence of characters, the empty sequence standing for a missing *)
(*     or empty text;                                                      *)
(*   - an optional array field is <<>> when missing and <<a>> when present *)
(*     with value a.                                                       *)
(***************************************************************************)
EXTENDS Integers, Sequences, FiniteSets, TLC

VARIABLES
    API_TOKEN,  \* import.meta.env.VITE_HUGGINGFACE_API_TOKEN is set (else '')
    REPO_ID,    \* import.meta.env.VITE_HUGGINGFACE_REPO_ID is set (else '')
    file,       \* questions.json of the dataset repo; <<>> while it does not exist
    call,       \* the generateQuestionsWithAI invocation of the current quiz start
    saves,      \* the saveQuestionsToRepo calls in progress, in dispatch order
    settled,    \* log of the settled saveQuestionsToRepo calls (kept by SaveSpec only)
    now,        \* the last value Date.now() returned
    starts,     \* number of quiz starts so far
    probe,      \* arguments and outcome of one direct call of a function
    unhandled,  \* a promise was rejected with no rejection handler attached
    quiz        \* the state of the HalluciQuiz component (its useState cells)

vars == <<API_TOKEN, REPO_ID, file, call, saves, settled, now, starts, probe, unhandled, quiz>>

----------------------------------------------------------------------------
(* Bounds of the model *)

\* largest count handed to generateFallbackQuestions directly (the UI offers 5, 10, 20)
MaxFallbackCount == 20
\* largest count of a quiz start in the pipeline model
MaxCount == 2
\* quiz starts in one session
MaxStarts == 2
\* saveQuestionsToRepo calls made directly in SaveSpec
MaxSaves == 2
\* largest clock value
MaxNow == 0

----------------------------------------------------------------------------
(* Generic helpers *)

Range(s) == {s[i] : i \in 1..Len(s)}

\* Array.prototype.filter
SeqFilter(s, Keep(_)) == SelectSeq(s, Keep)

\* Array.prototype.slice(0, n)
Slice0(s, n) == SubSeq(s, 1, IF n < Len(s) THEN (IF n < 0 THEN 0 ELSE n) ELSE Len(s))

\* a JavaScript string used as a condition: '' , null and undefined are falsy
Truthy(str) == str \notin {"", "null", "undefined"}

----------------------------------------------------------------------------
(* generateFallbackQuestions: the static table *)

IdStride == 1000

MC(id, cat, diff, text, correct) ==
    [id |-> id, category |-> cat, difficulty |-> diff, type |-> "multiple-choice",
     question |-> <<text>>, options |-> <<<<"a", "b", "c", "d">>>>, correct |-> correct,
     explanation |-> "text", source |-> "undefined", generatedAt |-> <<>>]

TF(id, cat, diff, text, correct) ==
    [id |-> id, category |-> cat, difficulty |-> diff, type |-> "true-false",
     question |-> <<text>>, options |-> <<>>, correct |-> correct,
     explanation |-> "text", source |-> "undefined", generatedAt |-> <<>>]

fallbackQuestions ==
    << MC(1,  "science",    "easy",   "Which planet is known as the Red Planet?", "1"),
       TF(2,  "science",    "easy",   "science easy true-false", "true"),
       TF(3,  "science",    "medium", "science medium true-false", "true"),
       MC(4,  "science",    "medium", "chemical symbol for gold", "2"),
       MC(5,  "science",    "hard",   "speed of light", "3"),
       MC(6,  "history",    "easy",   "In which year did World War II end?", "1"),
       TF(7,  "history",    "easy",   "history easy true-false", "true"),
       MC(8,  "history",    "medium", "first person on the Moon", "1"),
       MC(9,  "history",    "hard",   "history hard multiple-choice", "2"),
       MC(10, "geography",  "easy",   "What is the capital of France?", "2"),
       TF(11, "geography",  "easy",   "geography easy true-false", "true"),
       MC(12, "geography",  "medium", "largest ocean", "3"),
       MC(13, "geography",  "hard",   "deepest trench", "0"),
       TF(14, "technology", "easy",   "technology easy true-false", "true"),
       MC(15, "technology", "easy",   "What does CPU stand for?", "0"),
       MC(16, "technology", "medium", "technology medium multiple-choice", "1"),
       MC(17, "technology", "hard",   "What is the time complexity of binary search?", "1") >>

\* lines 709-716: each filter is applied only when its argument is truthy
FilterByRequest(questions, category, difficulty) ==
    LET byCategory == IF Truthy(category)
                      THEN SeqFilter(questions, LAMBDA q : q.category = category)
                      ELSE questions
    IN  IF Truthy(difficulty)
        THEN SeqFilter(byCategory, LAMBDA q : q.difficulty = difficulty)
        ELSE byCategory

\* line 725: the id of the i-th element (0-based) of the padded list
RepeatedIdNoOffset(id, i) == id
RepeatedId(id, i) == id + i * IdStride

\* lines 719-731.  filtered[i % filtered.length] is filtered[NaN], that is
\* undefined, when filtered is empty, and reading .id of it throws a TypeError.
PadOrSlice(filtered, count) ==
    IF Len(filtered) < count
    THEN IF filtered = <<>>
         THEN [threw |-> TRUE, value |-> <<>>]
         ELSE [threw |-> FALSE,
               value |-> [i \in 1..count |->
                            LET q == filtered[((i - 1) % Len(filtered)) + 1]
                            IN  [q EXCEPT !.id = RepeatedId(q.id, i - 1)]]]
    ELSE [threw |-> FALSE, value |-> Slice0(filtered, count)]

generateFallbackQuestions(category, difficulty, count) ==
    PadOrSlice(FilterByRequest(fallbackQuestions, category, difficulty), count)

----------------------------------------------------------------------------
(* The text generated by the model, as a sequence of tokens.                *)
(*   fenceJson  ```json        fence     ```                                *)
(*   lbracket   [              rbracket  ]                                  *)
(*   ws         white space    prose     words holding no [ ] or backtick   *)
(*   object     a JSON object literal holding no [ ] (not an array)         *)
(*   entry      one element {...} of the array, with the fields the model   *)
(*              wrote; the commas between elements are implied.  The        *)
(*              brackets of an entry's own options array are part of the    *)
(*              entry token: in the texts used here every entry stands      *)
(*              between a top-level [ and the text's last ].                *)
(* An entry whose question text holds the three backticks is written in     *)
(* pieces, because the fence patterns see them:                             *)
(*   entryOpen   the entry up to the first ``` of its question text         *)
(*   stringPart  question text between two ```                              *)
(*   entryClose  the question text after the last ```, and the entry's end  *)
(* with a fence token for each ```, which is the one character "backticks" *)
(* of the question text.                                                    *)

Tok(kind) == [kind |-> kind]
EntryTok(e) == [kind |-> "entry", e |-> e]
TextTok(kind, text) == [kind |-> kind, text |-> text]

\* the index of the first ``` of a text, 0 when it holds none
FirstTick(text) ==
    IF \E i \in 1..Len(text) : text[i] = "backticks"
    THEN CHOOSE i \in 1..Len(text) :
            text[i] = "backticks" /\ \A j \in 1..(i - 1) : text[j] # "backticks"
    ELSE 0

RECURSIVE StringRest(_)
StringRest(text) ==
    LET k == FirstTick(text)
    IN  IF k = 0 THEN <<TextTok("entryClose", text)>>
        ELSE <<TextTok("stringPart", SubSeq(text, 1, k - 1)), Tok("fence")>>
             \o StringRest(SubSeq(text, k + 1, Len(text)))

\* the text of one entry
EntryToks(e) ==
    LET k == FirstTick(e.question)
    IN  IF k = 0 THEN <<EntryTok(e)>>
        ELSE <<[kind |-> "entryOpen", e |-> [e EXCEPT !.question = SubSeq(@, 1, k - 1)]],
               Tok("fence")>>
             \o StringRest(SubSeq(e.question, k + 1, Len(e.question)))

IsWs(tok) == tok.kind = "ws"
IsFence(tok) == tok.kind \in {"fence", "fenceJson"}

Includes(toks, kinds) == \E i \in 1..Len(toks) : toks[i].kind \in kinds

\* String.prototype.trim on a token sequence
RECURSIVE TrimLeft(_)
TrimLeft(toks) ==
    IF toks # <<>> /\ IsWs(Head(toks)) THEN TrimLeft(Tail(toks)) ELSE toks
RECURSIVE TrimRight(_)
TrimRight(toks) ==
    IF toks # <<>> /\ IsWs(toks[Len(toks)])
    THEN TrimRight(SubSeq(toks, 1, Len(toks) - 1)) ELSE toks
Trim(toks) == TrimRight(TrimLeft(toks))

\* content.match(/<open>\s*([\s\S]*?)\s*```/): the first opening fence that
\* has a ``` after it (```json holds ``` too), lazily up to the next one;
\* <<>> when there is no match, else <<captured group>>
FenceMatch(toks, openKinds) ==
    LET opens == {i \in 1..Len(toks) :
                     /\ toks[i].kind \in openKinds
                     /\ \E j \in (i + 1)..Len(toks) : IsFence(toks[j])}
    IN  IF opens = {} THEN <<>>
        ELSE LET i == CHOOSE x \in opens : \A y \in opens : x <= y
                 j == CHOOSE x \in (i + 1)..Len(toks) :
                         /\ IsFence(toks[x])
                         /\ \A y \in (i + 1)..(x - 1) : ~IsFence(toks[y])
             IN  <<SubSeq(toks, i + 1, j - 1)>>

\* content.replace(/<fence>\n?/g, ''): every such fence and the line break
\* after it removed
RECURSIVE RemoveFences(_, _)
RemoveFences(toks, kinds) ==
    IF toks = <<>> THEN <<>>
    ELSE IF Head(toks).kind \in kinds
         THEN IF Len(toks) > 1 /\ IsWs(toks[2])
              THEN RemoveFences(Tail(Tail(toks)), kinds)
              ELSE RemoveFences(Tail(toks), kinds)
         ELSE <<Head(toks)>> \o RemoveFences(Tail(toks), kinds)

\* lines 401-418
StripFence(content) ==
    IF Includes(content, {"fenceJson"})
    THEN LET jsonMatch == FenceMatch(content, {"fenceJson"})
         IN  IF jsonMatch # <<>> THEN Trim(jsonMatch[1])
             ELSE RemoveFences(RemoveFences(content, {"fenceJson"}), {"fence"})
    ELSE IF Includes(content, {"fence"})
         THEN LET codeMatch == FenceMatch(content, {"fence", "fenceJson"})
              IN  IF codeMatch # <<>> THEN Trim(codeMatch[1])
                  ELSE RemoveFences(content, {"fence"})
         ELSE content

\* lines 420-426: jsonContent.match(/\[[\s\S]*\]/) is greedy: from the first [
\* to the last ] of the text
ExtractArray(jsonContent) ==
    LET t == Trim(jsonContent)
    IN  IF t # <<>> /\ Head(t).kind = "lbracket" THEN jsonContent
        ELSE LET ls == {i \in 1..Len(jsonContent) : jsonContent[i].kind = "lbracket"}
                 rs == {i \in 1..Len(jsonContent) : jsonContent[i].kind = "rbracket"}
             IN  IF \E i \in ls, j \in rs : i < j
                 THEN LET first == CHOOSE x \in ls : \A y \in ls : x <= y
                          last == CHOOSE x \in rs : \A y \in rs : y <= x
                      IN  SubSeq(jsonContent, first, last)
                 ELSE jsonContent

\* the question text written by the pieces between entryOpen and entryClose
RECURSIVE StringText(_)
StringText(toks) ==
    IF toks = <<>> THEN <<>>
    ELSE (IF Head(toks).kind = "fence" THEN <<"backticks">> ELSE Head(toks).text)
         \o StringText(Tail(toks))

\* the elements of an array literal, from the tokens between its brackets
RECURSIVE ParseElements(_)
ParseElements(t) ==
    IF t = <<>> THEN [error |-> FALSE, value |-> <<>>]
    ELSE IF Head(t).kind = "entry"
    THEN LET rest == ParseElements(Tail(t))
         IN  [error |-> rest.error, value |-> <<Head(t).e>> \o rest.value]
    ELSE IF Head(t).kind = "entryOpen"
    THEN LET closes == {j \in 2..Len(t) :
                           /\ t[j].kind = "entryClose"
                           /\ \A k \in 2..(j - 1) : t[k].kind \in {"fence", "stringPart"}}
         IN  IF closes = {} THEN [error |-> TRUE, value |-> <<>>]
             ELSE LET j == CHOOSE x \in closes : TRUE
                      e == [Head(t).e EXCEPT
                              !.question = @ \o StringText(SubSeq(t, 2, j - 1))
                                             \o t[j].text]
                      rest == ParseElements(SubSeq(t, j + 1, Len(t)))
                  IN  [error |-> rest.error, value |-> <<e>> \o rest.value]
    ELSE [error |-> TRUE, value |-> <<>>]

\* JSON.parse: white space between tokens is insignificant
JSONParse(jsonContent) ==
    LET t == SeqFilter(jsonContent, LAMBDA tok : ~IsWs(tok))
        elements == ParseElements(SubSeq(t, 2, Len(t) - 1))
    IN  IF /\ Len(t) >= 2
           /\ t[1].kind = "lbracket" /\ t[Len(t)].kind = "rbracket"
           /\ ~elements.error
        THEN [error |-> FALSE, isArray |-> TRUE, value |-> elements.value]
        ELSE IF Len(t) = 1 /\ t[1].kind \in {"object", "entry"}
             THEN [error |-> FALSE, isArray |-> FALSE, value |-> <<>>]
             ELSE [error |-> TRUE, isArray |-> FALSE, value |-> <<>>]

\* lines 454-465: one element of limitedQuestions.map, t the value of Date.now()
\* read for this element
FormatKeepsCategory(q, index, t, category, difficulty) ==
    [id |-> t + index,
     category |-> IF Truthy(q.category) THEN q.category
                  ELSE IF Truthy(category) THEN category ELSE "mixed",
     difficulty |-> difficulty,
     type |-> IF Truthy(q.type) THEN q.type ELSE "multiple-choice",
     question |-> q.question,
     options |-> IF q.options # <<>> THEN q.options ELSE << <<>> >>,
     correct |-> q.correct,
     explanation |-> IF Truthy(q.explanation) THEN q.explanation
                     ELSE "No explanation provided.",
     source |-> "ai-generated",
     generatedAt |-> <<t>>]
FormatQuestion(q, index, t, category, difficulty) ==
    [id |-> t + index,
     category |-> IF Truthy(category) THEN category ELSE "mixed",
     difficulty |-> difficulty,
     type |-> IF Truthy(q.type) THEN q.type ELSE "multiple-choice",
     question |-> q.question,
     options |-> IF q.options # <<>> THEN q.options ELSE << <<>> >>,
     correct |-> q.correct,
     explanation |-> IF Truthy(q.explanation) THEN q.explanation
                     ELSE "No explanation provided.",
     source |-> "ai-generated",
     generatedAt |-> <<t>>]

\* lines 444-447
LimitOneShort(questions, count) == Slice0(questions, count - 1)
LimitQuestions(questions, count) == Slice0(questions, count)

\* lines 400-465: from the extracted content to formattedQuestions; times[i]
\* is the clock read for the i-th retained entry
ParseStage(content, category, difficulty, count, times) ==
    LET parsed == JSONParse(ExtractArray(StripFence(content)))
    IN  IF parsed.error THEN [threw |-> TRUE, error |-> "parse", value |-> <<>>]
        ELSE IF ~parsed.isArray THEN [threw |-> TRUE, error |-> "not an array", value |-> <<>>]
        ELSE LET limitedQuestions == LimitQuestions(parsed.value, count)
             IN  [threw |-> FALSE, error |-> "none",
                  value |-> [i \in 1..Len(limitedQuestions) |->
                                FormatQuestion(limitedQuestions[i], i - 1, times[i],
                                               category, difficulty)]]

----------------------------------------------------------------------------
(* The inference endpoint's answers *)

\* The body of a success response, as far as lines 376-392 look at it:
\*   isArray         Array.isArray(data)
\*   generated_text  data.generated_text of an object (<<>>: missing or '')
\*   zero            data[0]: <<>> when missing (the empty array, an object with
\*                   no property "0"), else <<element>>
\* and an element has the texts generated_text and text (<<>>: missing or '').
Element(generated_text, text) == [generated_text |-> generated_text, text |-> text]
ArrayBody(zero) == [isArray |-> TRUE, generated_text |-> <<>>, zero |-> zero]
ObjectBody(generated_text, zero) ==
    [isArray |-> FALSE, generated_text |-> generated_text, zero |-> zero]

\* data[0]?.generated_text, data[0]?.text
ZeroText(data, field) == IF data.zero = <<>> THEN <<>> ELSE data.zero[1][field]

\* lines 375-396: the generated text of a success body; a non-empty string is
\* truthy even when it holds white space only
ExtractGeneratedTextOnly(data) ==
    LET content == IF data.isArray THEN Trim(ZeroText(data, "generated_text"))
                   ELSE Trim(data.generated_text)
    IN  [threw |-> content = <<>>, content |-> content]
ExtractContent(data) ==
    LET content ==
          IF data.isArray
          THEN IF ZeroText(data, "generated_text") # <<>>
               THEN <<Trim(ZeroText(data, "generated_text"))>>
               ELSE IF ZeroText(data, "text") # <<>>
                    THEN <<Trim(ZeroText(data, "text"))>>
                    ELSE << <<>> >>
          ELSE IF data.generated_text # <<>> THEN <<Trim(data.generated_text)>>
          ELSE IF ZeroText(data, "generated_text") # <<>>
               THEN <<Trim(ZeroText(data, "generated_text"))>>
               ELSE <<>>
    IN  IF content = <<>> THEN [threw |-> TRUE, content |-> <<>>]
        ELSE [threw |-> content[1] = <<>>, content |-> content[1]]

\* lines 356-361: errorData.error && errorData.error.includes('loading')
IsLoadingAnyError(response) == response.error # "undefined"
IsLoading(response) == response.error = "loading"

Entry(type, question, options, correct, explanation, category, difficulty) ==
    [type |-> type, question |-> question, options |-> options, correct |-> correct,
     explanation |-> explanation, category |-> category, difficulty |-> difficulty]

FourOptions == << <<"a", "b", "c", "d">> >>

GoodMC == Entry("multiple-choice", <<"Q", "1">>, FourOptions, "2", "text",
                "undefined", "undefined")
\* the text of GoodMC in another letter case
GoodTF == Entry("true-false", <<"q", "1">>, <<>>, "true", "text",
                "undefined", "undefined")
\* an entry holding a question and nothing else of the schema
Bare == Entry("undefined", <<"Q", "2">>, <<>>, "undefined", "undefined",
              "history", "hard")

RECURSIVE EntriesText(_)
EntriesText(entries) ==
    IF entries = <<>> THEN <<>>
    ELSE EntryToks(Head(entries)) \o EntriesText(Tail(entries))

ArrayOf(entries) == <<Tok("lbracket")>> \o EntriesText(entries) \o <<Tok("rbracket")>>

GeneratedTexts ==
    { ArrayOf(<<GoodMC>>),
      ArrayOf(<<GoodMC, GoodTF>>),
      ArrayOf(<<Bare>>),
      ArrayOf(<<>>),
      <<Tok("prose")>>,
      <<Tok("object")>> }

NoData == ObjectBody(<<>>, <<>>)

InferenceResponses ==
    { [kind |-> "network", error |-> "undefined", data |-> NoData],
      [kind |-> "status",  error |-> "loading",   data |-> NoData],
      [kind |-> "status",  error |-> "other",     data |-> NoData],
      [kind |-> "status",  error |-> "undefined", data |-> NoData],
      [kind |-> "ok", error |-> "undefined", data |-> ArrayBody(<<>>)],
      [kind |-> "ok", error |-> "undefined", data |-> ObjectBody(<<>>, <<>>)] }
    \cup { [kind |-> "ok", error |-> "undefined",
            data |-> ArrayBody(<<Element(t, <<>>)>>)] : t \in GeneratedTexts }

\* Date.now() read once for each of n elements: non-decreasing, not before t
RECURSIVE ClockReads(_, _)
ClockReads(n, t) ==
    IF n = 0 THEN {<<>>}
    ELSE UNION {{<<u>> \o rest : rest \in ClockReads(n - 1, u)} : u \in t..MaxNow}

----------------------------------------------------------------------------
(* huggingFaceRepoService *)

\* String.prototype.toLowerCase / trim on a question text
LowerChar(c) == IF c = "Q" THEN "q" ELSE c
ToLowerCase(text) == [i \in 1..Len(text) |-> LowerChar(text[i])]
RECURSIVE TrimTextLeft(_)
TrimTextLeft(text) ==
    IF text # <<>> /\ Head(text) = " " THEN TrimTextLeft(Tail(text)) ELSE text
RECURSIVE TrimTextRight(_)
TrimTextRight(text) ==
    IF text # <<>> /\ text[Len(text)] = " "
    THEN TrimTextRight(SubSeq(text, 1, Len(text) - 1)) ELSE text
TrimText(text) == TrimTextRight(TrimTextLeft(text))

\* lines 958, 960: q.question?.toLowerCase().trim()
QuestionText(q) == TrimText(ToLowerCase(q.question))

\* lines 957-962
NewQuestions(questions, existingQuestions) ==
    LET existingQuestionTexts == {QuestionText(q) : q \in Range(existingQuestions)}
    IN  SeqFilter(questions, LAMBDA q : /\ QuestionText(q) # <<>>
                                        /\ QuestionText(q) \notin existingQuestionTexts)

\* line 971
MergeQuestions(existingQuestions, newQuestions) == existingQuestions \o newQuestions

\* lines 1003-1019: the commit replaces questions.json by the content sent
\* (operation addOrUpdate)
CommittedFileMerged(current, allQuestions) ==
    current \o SeqFilter(allQuestions, LAMBDA q : q \notin Range(current))
CommittedFile(current, allQuestions) == allQuestions

\* The answers to the GET of questions.json (lines 1078-1085):
\*   network           the fetch rejects
\*   status 404, 500   the file is missing; another error status
\*   ok                a 200 whose body is the stored array, a JSON object,
\*                     the JSON null, or no JSON at all
LoadResponse(kind, detail) == [kind |-> kind, detail |-> detail]
LoadResponses ==
    { LoadResponse("network", "none"),
      LoadResponse("status", "404"), LoadResponse("status", "500"),
      LoadResponse("ok", "array"), LoadResponse("ok", "object"),
      LoadResponse("ok", "null"), LoadResponse("ok", "invalid") }

\* questions.json holds the stored array when it exists; a 404 is the answer
\* while it does not exist, and a body that is no array stands for a
\* questions.json that holds no stored array
Answers(response, stored) ==
    /\ (response.kind = "ok" /\ response.detail = "array") => stored # <<>>
    /\ (response.kind = "ok" /\ response.detail # "array") => stored = <<>>
    /\ (response.kind = "status" /\ response.detail = "404") => stored = <<>>

\* lines 1077-1093, the try block: it throws (the fetch rejects,
\* response.json() rejects, questions.length of null), returns a value, or
\* falls through
LoadTry(response, stored) ==
    IF response.kind = "network" THEN [threw |-> TRUE, returned |-> FALSE, value |-> <<>>]
    ELSE IF response.kind = "ok"
    THEN IF response.detail \in {"invalid", "null"}
         THEN [threw |-> TRUE, returned |-> FALSE, value |-> <<>>]
         ELSE [threw |-> FALSE, returned |-> TRUE,
               value |-> IF response.detail = "array" THEN stored ELSE <<>>]
    ELSE [threw |-> FALSE, returned |-> FALSE, value |-> <<>>]

\* lines 1072-1099
loadRethrows(apiToken, repoId, response, stored) ==
    IF ~apiToken \/ ~repoId THEN [threw |-> FALSE, value |-> <<>>]
    ELSE LET try == LoadTry(response, stored)
         IN  [threw |-> try.threw, value |-> IF try.returned THEN try.value ELSE <<>>]
loadQuestionsFromRepo(apiToken, repoId, response, stored) ==
    IF ~apiToken \/ ~repoId THEN [threw |-> FALSE, value |-> <<>>]
    ELSE LET try == LoadTry(response, stored)
         IN  IF try.threw THEN [threw |-> FALSE, value |-> <<>>]
             ELSE IF try.returned THEN [threw |-> FALSE, value |-> try.value]
             ELSE [threw |-> FALSE, value |-> <<>>]

\* lines 1108-1122: the ways filterQuestionsFromRepo can choose its result, each
\* a sequence of positions of questions: the positions matching the filters, in
\* any order (the shuffle), cut to count
filterIgnoringDifficulty(questions, category, difficulty, count) ==
    LET matching == {i \in 1..Len(questions) :
                        Truthy(category) => questions[i].category = category}
        n == IF Cardinality(matching) < count THEN Cardinality(matching) ELSE count
    IN  {p \in [1..n -> matching] : \A i, j \in 1..n : i # j => p[i] # p[j]}
filterQuestionsFromRepo(questions, category, difficulty, count) ==
    LET matching == {i \in 1..Len(questions) :
                        /\ (Truthy(category) => questions[i].category = category)
                        /\ (Truthy(difficulty) => questions[i].difficulty = difficulty)}
        n == IF Cardinality(matching) < count THEN Cardinality(matching) ELSE count
    IN  {p \in [1..n -> matching] : \A i, j \in 1..n : i # j => p[i] # p[j]}

\* lines 483-490: the handlers the caller attaches to the promise of the save
ThenOnly == {"then"}
SaveHandlers == {"then", "catch"}

\* a saveQuestionsToRepo call, from its first await on
NewSave(questions) ==
    [pc |-> "read", questions |-> questions, read |-> "pending",
     existingQuestions |-> <<>>, newQuestions |-> <<>>, allQuestions |-> <<>>,
     outcome |-> "pending", handlers |-> SaveHandlers]

RemoveAt(seq, i) == SubSeq(seq, 1, i - 1) \o SubSeq(seq, i + 1, Len(seq))

----------------------------------------------------------------------------
(* generateQuestionsWithAI *)

\* what the settings panel can select (a subset): no category with an easy
\* quiz, and one category with a hard quiz
Requests == { [category |-> "null", difficulty |-> "easy"],
              [category |-> "science", difficulty |-> "hard"] }

Idle ==
    [pc |-> "idle", category |-> "null", difficulty |-> "easy", count |-> 1,
     result |-> <<>>, via |-> "none", repoQuestions |-> <<>>, picked |-> <<>>,
     error |-> "none", retried |-> FALSE, loadPending |-> FALSE,
     loads |-> 0, inferences |-> 0, dispatched |-> 0]

\* line 221
RepoConfigured == REPO_ID /\ API_TOKEN
\* line 245
TokenMissingUnlessRepo == ~API_TOKEN /\ ~REPO_ID
TokenMissing == ~API_TOKEN

\* lines 248 and 522: return generateFallbackQuestions(category, difficulty, count);
\* an exception it throws leaves the async function, whose promise rejects
ReturnFallback(c) ==
    LET fb == generateFallbackQuestions(c.category, c.difficulty, c.count)
    IN  IF fb.threw
        THEN [c EXCEPT !.pc = "rejected", !.result = <<>>, !.via = "fallback"]
        ELSE [c EXCEPT !.pc = "resolved", !.result = fb.value, !.via = "fallback"]

\* lines 332-351: the inference request is sent
IssueInference(c) == [c EXCEPT !.pc = "awaitInference", !.inferences = @ + 1]

\* lines 245-351: after the repo block
AfterRepo(c) == IF TokenMissing THEN ReturnFallback(c) ELSE IssueInference(c)

\* lines 506-522: the catch block; error is the kind of exception caught
CatchRethrows(c, error) == [c EXCEPT !.pc = "rejected", !.error = error]
CatchError(c, error) == ReturnFallback([c EXCEPT !.error = error])

\* lines 214-243: entry of the function, up to its first await.  loads,
\* inferences and dispatched count the requests of this execution of the
\* function body; retried tells that it is the retry of line 365.
Enter(c) ==
    LET fresh == [c EXCEPT !.repoQuestions = <<>>, !.picked = <<>>, !.result = <<>>,
                           !.via = "none", !.error = "none", !.loadPending = FALSE,
                           !.loads = 0, !.inferences = 0, !.dispatched = 0]
    IN  IF RepoConfigured
        THEN [fresh EXCEPT !.pc = "awaitRepo", !.loads = @ + 1]
        ELSE AfterRepo(fresh)

\* HalluciQuiz.startQuiz calls generateQuestionsWithAI(category, difficulty, count)
Start(category, difficulty, count) ==
    /\ call.pc \in {"idle", "resolved", "rejected"}
    /\ starts < MaxStarts
    /\ starts' = starts + 1
    /\ call' = Enter([Idle EXCEPT !.category = category, !.difficulty = difficulty,
                                  !.count = count])
    /\ UNCHANGED <<API_TOKEN, REPO_ID, file, saves, settled, now, probe, unhandled, quiz>>

\* lines 224-227: the race is settled by the answer to the load, or by the 2 s
\* timer before any answer
RaceOutcomes == LoadResponses \cup {LoadResponse("timeout", "none")}

\* lines 224-243: Promise.race settles.  loadQuestionsFromRepo (lines 1072-1099)
\* resolves to the stored array, or to [] on a 404, another error status or a
\* network failure; the 2 s timer may win the race instead, and the error it
\* rejects with is caught: the load request is then still pending, and nobody
\* reads its answer (loadPending is dropped when the inference request that
\* follows settles).
RepoRaceSettles(outcome) ==
    /\ call.pc = "awaitRepo"
    /\ outcome \in RaceOutcomes
    /\ Answers(outcome, file)
    /\ LET loaded == loadQuestionsFromRepo(API_TOKEN, REPO_ID, outcome, file)
           repoQuestions == IF outcome.kind = "timeout" \/ loaded.threw THEN <<>>
                            ELSE loaded.value
           c == [call EXCEPT !.repoQuestions = repoQuestions,
                             !.loadPending = (outcome.kind = "timeout")]
           picks == filterQuestionsFromRepo(repoQuestions, call.category,
                                            call.difficulty, call.count)
       IN  \E p \in picks :
              IF repoQuestions # <<>> /\ Len(p) >= call.count
              THEN call' = [c EXCEPT !.pc = "resolved", !.via = "repo", !.picked = p,
                                     !.result = [i \in 1..Len(p) |-> repoQuestions[p[i]]]]
              ELSE call' = AfterRepo(c)
    /\ UNCHANGED <<API_TOKEN, REPO_ID, file, saves, settled, now, starts, probe, unhandled, quiz>>

\* lines 475-502: the background save, dispatched and not awaited
SaveWantedAnyBatch(formattedQuestions) == REPO_ID /\ API_TOKEN
SaveWanted(formattedQuestions) ==
    /\ REPO_ID /\ API_TOKEN /\ formattedQuestions # <<>>
    /\ \E q \in Range(formattedQuestions) : q.source = "ai-generated"

\* lines 348-523: the inference request settles
InferenceSettles(response) ==
    /\ call.pc = "awaitInference"
    /\ LET c == [call EXCEPT !.loadPending = FALSE]
       IN
       IF response.kind = "network"
       THEN /\ call' = CatchError(c, "network")
            /\ UNCHANGED <<saves, now>>
       ELSE IF response.kind = "status"
       THEN /\ call' = IF IsLoading(response)
                       THEN [c EXCEPT !.pc = "awaitRetryDelay"]
                       ELSE CatchError(c, "status")
            /\ UNCHANGED <<saves, now>>
       ELSE LET extracted == ExtractContent(response.data)
            IN  IF extracted.threw
                THEN /\ call' = CatchError(c, "shape")
                     /\ UNCHANGED <<saves, now>>
                ELSE \E times \in ClockReads(MaxCount, now) :
                       LET parsed == ParseStage(extracted.content, call.category,
                                                call.difficulty, call.count, times)
                           formattedQuestions == parsed.value
                       IN  IF parsed.threw
                           THEN /\ call' = CatchError(c, parsed.error)
                                /\ UNCHANGED <<saves, now>>
                           ELSE /\ now' = IF formattedQuestions = <<>> THEN now
                                          ELSE times[Len(formattedQuestions)]
                                /\ IF SaveWanted(formattedQuestions)
                                   THEN /\ saves' = Append(saves, NewSave(formattedQuestions))
                                        /\ call' = [c EXCEPT !.pc = "resolved",
                                                      !.via = "ai",
                                                      !.result = formattedQuestions,
                                                      !.dispatched = @ + 1]
                                   ELSE /\ saves' = saves
                                        /\ call' = [c EXCEPT !.pc = "resolved",
                                                      !.via = "ai",
                                                      !.result = formattedQuestions]
    /\ UNCHANGED <<API_TOKEN, REPO_ID, file, settled, starts, unhandled, quiz>>

\* lines 364-365: the 5 s timer fires and the function calls itself
RetryTimerFires ==
    /\ call.pc = "awaitRetryDelay"
    /\ call' = Enter([call EXCEPT !.retried = TRUE])
    /\ UNCHANGED <<API_TOKEN, REPO_ID, file, saves, settled, now, starts, probe, unhandled, quiz>>

----------------------------------------------------------------------------
(* saveQuestionsToRepo and saveQuestionsViaCommit, one step per await *)

\* lines 926-975: the call after the read of the existing file has settled;
\* "stored" is a 200 with the stored array, "missing" a 404, "failed" another
\* status or a network failure
AfterRead(save, outcome, stored) ==
    LET existingQuestions == IF outcome = "stored" THEN stored ELSE <<>>
        newQuestions == NewQuestions(save.questions, existingQuestions)
    IN  IF newQuestions = <<>>
        THEN [save EXCEPT !.pc = "done", !.outcome = "nothing new", !.read = outcome,
                          !.existingQuestions = existingQuestions]
        ELSE [save EXCEPT !.pc = "commit", !.read = outcome,
                          !.existingQuestions = existingQuestions,
                          !.newQuestions = newQuestions,
                          !.allQuestions = MergeQuestions(existingQuestions, newQuestions)]

\* lines 1023-1063: the call after the commit request has settled; a rejected
\* commit or a network failure throws (lines 1054, 1062, 980): the promise of
\* the save rejects, and the rejection is unhandled unless the caller attached
\* a .catch
AfterCommit(save, accepted) ==
    [save EXCEPT !.pc = "done", !.outcome = IF accepted THEN "saved" ELSE "failed"]

SaveReadSettles(s, outcome) ==
    /\ s \in 1..Len(saves)
    /\ saves[s].pc = "read"
    /\ outcome \in {"stored", "missing", "failed"}
    /\ outcome = "stored" => file # <<>>
    /\ outcome = "missing" => file = <<>>
    /\ LET after == AfterRead(saves[s], outcome, file)
       IN  saves' = IF after.pc = "done" THEN RemoveAt(saves, s)
                    ELSE [saves EXCEPT ![s] = after]
    /\ UNCHANGED <<API_TOKEN, REPO_ID, file, call, now, starts, probe, unhandled, quiz>>

SaveCommitSettles(s, accepted) ==
    /\ s \in 1..Len(saves)
    /\ saves[s].pc = "commit"
    /\ file' = IF accepted THEN CommittedFile(file, saves[s].allQuestions) ELSE file
    /\ saves' = RemoveAt(saves, s)
    /\ unhandled' = (unhandled \/ (~accepted /\ "catch" \notin saves[s].handlers))
    /\ UNCHANGED <<API_TOKEN, REPO_ID, call, now, starts, probe, quiz>>

----------------------------------------------------------------------------
(* HalluciQuiz: the component's state cells and its handlers *)

\* lines 30-34: difficultySettings
TimeLimit(difficulty) ==
    CASE difficulty = "easy" -> 45 [] difficulty = "medium" -> 30 [] OTHER -> 15
Points(difficulty) ==
    CASE difficulty = "easy" -> 10 [] difficulty = "medium" -> 20 [] OTHER -> 30

\* lines 7-19: the initial values of the useState cells.  The category and the
\* question count of a quiz are chosen with the click on Start Quiz.
QuizIdle ==
    [currentQuestion |-> 0, score |-> 0, showResult |-> FALSE,
     selectedAnswer |-> "null", quizStarted |-> FALSE, timeLeft |-> 30,
     selectedDifficulty |-> "medium", questions |-> <<>>,
     isLoadingQuestions |-> FALSE, questionError |-> "null"]

\* line 152
isQuizComplete(q) == q.currentQuestion = Len(q.questions) - 1 /\ q.showResult

\* lines 292, 337 and 467-492: the view rendered; the question view shows the
\* explanation and the Next Question / Finish Quiz button once showResult
View(q) ==
    IF ~q.quizStarted THEN "start"
    ELSE IF ~isQuizComplete(q)
         THEN IF q.showResult THEN "result" ELSE "question"
         ELSE "complete"

\* questions[currentQuestion], as <<>> when there is none
CurrentQ(q) ==
    IF q.currentQuestion + 1 \in 1..Len(q.questions)
    THEN <<q.questions[q.currentQuestion + 1]>> ELSE <<>>

\* lines 395-460: the answer buttons the question view renders
AnswerButtons(q) ==
    IF CurrentQ(q) = <<>> THEN {}
    ELSE LET currentQ == CurrentQ(q)[1]
         IN  IF currentQ.type = "multiple-choice"
             THEN IF currentQ.options = <<>> THEN {}
                  ELSE {CASE i = 1 -> "0" [] i = 2 -> "1" [] i = 3 -> "2" [] OTHER -> "3" :
                           i \in 1..Len(currentQ.options[1])}
             ELSE IF currentQ.type = "true-false" THEN {"true", "false"}
             ELSE {}

\* lines 240 and 71-73: a difficulty button of the settings panel (shown in
\* every view), and the effect that follows the change
SelectDifficulty(key) ==
    /\ key \in {"easy", "medium", "hard"}
    /\ key # quiz.selectedDifficulty
    /\ quiz' = [quiz EXCEPT !.selectedDifficulty = key, !.timeLeft = TimeLimit(key)]
    /\ UNCHANGED <<API_TOKEN, REPO_ID, file, call, saves, settled, now, starts, probe,
                   unhandled>>

\* lines 124-133: the click on Start Quiz, up to the await
StartQuizClick(category, count) ==
    /\ ~quiz.quizStarted /\ ~quiz.isLoadingQuestions
    /\ quiz' = [quiz EXCEPT !.isLoadingQuestions = TRUE, !.questionError = "null"]
    /\ call' = Enter([Idle EXCEPT !.category = category,
                                  !.difficulty = quiz.selectedDifficulty,
                                  !.count = count])
    /\ UNCHANGED <<API_TOKEN, REPO_ID, file, saves, settled, now, starts, probe,
                   unhandled>>

\* lines 135-149: startQuiz after the await; selectedDifficulty is the value
\* of the render of the click, the one passed to the call
StartsWithoutCheck(q, c) ==
    IF c.pc = "rejected"
    THEN [q EXCEPT !.questionError = "Failed to generate questions. Please try again.",
                   !.isLoadingQuestions = FALSE]
    ELSE [q EXCEPT !.questions = c.result, !.quizStarted = TRUE,
                   !.timeLeft = TimeLimit(c.difficulty),
                   !.isLoadingQuestions = FALSE]
AfterGenerate(q, c) ==
    IF c.pc = "rejected"
    THEN [q EXCEPT !.questionError = "Failed to generate questions. Please try again.",
                   !.isLoadingQuestions = FALSE]
    ELSE IF Len(c.result) = 0
    THEN [q EXCEPT !.questionError = "No questions could be generated. Please try again.",
                   !.isLoadingQuestions = FALSE]
    ELSE [q EXCEPT !.questions = c.result, !.quizStarted = TRUE,
                   !.timeLeft = TimeLimit(c.difficulty),
                   !.isLoadingQuestions = FALSE]

StartQuizSettles ==
    /\ quiz.isLoadingQuestions
    /\ call.pc \in {"resolved", "rejected"}
    /\ quiz' = AfterGenerate(quiz, call)
    /\ UNCHANGED <<API_TOKEN, REPO_ID, file, call, saves, settled, now, starts, probe,
                   unhandled>>

\* lines 75-95
AnswerSelected(q, answerIndex) ==
    IF CurrentQ(q) = <<>> THEN q
    ELSE LET currentQ == CurrentQ(q)[1]
             isCorrect == answerIndex = currentQ.correct
         IN  [q EXCEPT !.selectedAnswer = answerIndex,
                       !.score = IF isCorrect THEN @ + Points(q.selectedDifficulty)
                                 ELSE @,
                       !.showResult = TRUE]

\* lines 75-95, called by an answer button (lines 402, 436: not while the
\* result is shown)
handleAnswerSelect(answerIndex) ==
    /\ quiz.quizStarted /\ ~isQuizComplete(quiz) /\ ~quiz.showResult
    /\ quiz' = AnswerSelected(quiz, answerIndex)
    /\ UNCHANGED <<API_TOKEN, REPO_ID, file, call, saves, settled, now, starts, probe,
                   unhandled>>

\* lines 61-64: the one-second timer of the timer effect fires
Tick ==
    /\ quiz.quizStarted /\ ~quiz.showResult /\ quiz.timeLeft > 0
    /\ quiz' = [quiz EXCEPT !.timeLeft = @ - 1]
    /\ UNCHANGED <<API_TOKEN, REPO_ID, file, call, saves, settled, now, starts, probe,
                   unhandled>>

\* lines 65-67: the timer effect once the time is up
TimeUp ==
    /\ ~(quiz.quizStarted /\ ~quiz.showResult /\ quiz.timeLeft > 0)
    /\ quiz.timeLeft = 0 /\ ~quiz.showResult
    /\ CurrentQ(quiz) # <<>>
    /\ quiz' = AnswerSelected(quiz, "null")
    /\ UNCHANGED <<API_TOKEN, REPO_ID, file, call, saves, settled, now, starts, probe,
                   unhandled>>

\* lines 97-112, called by the button of the result view (line 487)
nextQuestion ==
    /\ quiz.quizStarted /\ ~isQuizComplete(quiz) /\ quiz.showResult
    /\ quiz' = IF Len(quiz.questions) = 0 THEN quiz
               ELSE IF quiz.currentQuestion < Len(quiz.questions) - 1
               THEN [quiz EXCEPT !.currentQuestion = @ + 1, !.selectedAnswer = "null",
                                 !.showResult = FALSE,
                                 !.timeLeft = TimeLimit(quiz.selectedDifficulty)]
               ELSE [quiz EXCEPT !.showResult = TRUE]
    /\ UNCHANGED <<API_TOKEN, REPO_ID, file, call, saves, settled, now, starts, probe,
                   unhandled>>

\* lines 114-122, called by the button of the final screen (line 534)
resetQuiz ==
    /\ quiz.quizStarted /\ isQuizComplete(quiz)
    /\ quiz' = [quiz EXCEPT !.currentQuestion = 0, !.score = 0, !.showResult = FALSE,
                            !.selectedAnswer = "null", !.quizStarted = FALSE,
                            !.timeLeft = TimeLimit(quiz.selectedDifficulty)]
    /\ UNCHANGED <<API_TOKEN, REPO_ID, file, call, saves, settled, now, starts, probe,
                   unhandled>>

----------------------------------------------------------------------------
(* Direct calls of generateFallbackQuestions *)

TableCategories == {"science", "history", "geography", "technology"}
TableDifficulties == {"easy", "medium", "hard"}

\* null (no filter), the table's values, and one value the table does not hold
ProbeCategories == TableCategories \cup {"null", "art"}
ProbeDifficulties == TableDifficulties \cup {"null", "expert"}

NotCalled == [threw |-> FALSE, value |-> <<>>]

ProbeInit ==
    probe \in [category : ProbeCategories, difficulty : ProbeDifficulties,
               count : 1..MaxFallbackCount, called : {FALSE}, out : {NotCalled}]

ProbeIdle ==
    probe = [category |-> "null", difficulty |-> "null", count |-> 1,
             called |-> FALSE, out |-> NotCalled]

CallFallback ==
    /\ ~probe.called
    /\ probe' = [probe EXCEPT !.called = TRUE,
                   !.out = generateFallbackQuestions(probe.category, probe.difficulty,
                                                     probe.count)]

CallFallbackStep ==
    /\ CallFallback
    /\ UNCHANGED <<API_TOKEN, REPO_ID, file, call, saves, settled, now, starts, unhandled, quiz>>

FallbackInit ==
    /\ ProbeInit
    /\ API_TOKEN = FALSE /\ REPO_ID = FALSE
    /\ file = <<>> /\ call = Idle /\ saves = <<>> /\ settled = <<>>
    /\ now = 0 /\ starts = 0
    /\ unhandled = FALSE /\ quiz = QuizIdle
FallbackNext == CallFallbackStep
FallbackSpec == FallbackInit /\ [][FallbackNext]_vars

----------------------------------------------------------------------------
(* Direct calls of loadQuestionsFromRepo *)

\* contents of questions.json: none, or what one or two saves have stored
StoredFiles ==
    LET batches == { [i \in 1..Len(entries) |->
                         FormatQuestion(entries[i], i - 1, 0, "science", "easy")] :
                     entries \in {<<GoodMC>>, <<Bare>>, <<GoodMC, GoodTF>>, <<GoodTF, Bare>>} }
    IN  {<<>>} \cup batches
           \cup {MergeQuestions(a, NewQuestions(b, a)) : a \in batches, b \in batches}

LoadInit ==
    /\ API_TOKEN \in BOOLEAN /\ REPO_ID \in BOOLEAN
    /\ file \in StoredFiles
    /\ call = Idle /\ saves = <<>> /\ settled = <<>>
    /\ now = 0 /\ starts = 0
    /\ unhandled = FALSE /\ quiz = QuizIdle
    /\ probe \in {[response |-> r, called |-> FALSE, out |-> NotCalled] :
                    r \in {x \in LoadResponses : Answers(x, file)}}

CallLoad ==
    /\ ~probe.called
    /\ probe' = [probe EXCEPT !.called = TRUE,
                   !.out = loadQuestionsFromRepo(API_TOKEN, REPO_ID, probe.response, file)]
    /\ UNCHANGED <<API_TOKEN, REPO_ID, file, call, saves, settled, now, starts,
                   unhandled, quiz>>

LoadNext == CallLoad
LoadSpec == LoadInit /\ [][LoadNext]_vars

----------------------------------------------------------------------------
(* The prompt of generateQuestionsWithAI (lines 254-313), built twice for   *)
(* the same arguments                                                       *)

\* lines 254-269
CategoryDesc(category) ==
    IF ~Truthy(category)
    THEN "general knowledge across science, history, geography, and technology"
    ELSE CASE category = "science" ->
                "science, biology, chemistry, physics, astronomy, and natural sciences"
           [] category = "history" ->
                "world history, historical events, famous people, and historical facts"
           [] category = "geography" ->
                "geography, countries, capitals, landmarks, natural features, and world geography"
           [] category = "technology" ->
                "technology, computers, programming, internet, software, and tech innovations"
           [] OTHER -> "undefined"

\* lines 261-271
DifficultyDesc(difficulty) ==
    CASE difficulty = "easy" -> "easy and straightforward"
      [] difficulty = "hard" -> "difficult and advanced"
      [] OTHER -> "moderately challenging"

\* lines 275-279
uniqueTopics ==
    <<"specific historical events", "scientific discoveries", "geographical features",
      "technological innovations", "famous people", "natural phenomena",
      "cultural facts", "scientific principles", "world landmarks", "tech history">>

\* values of Math.random() * 1000 (line 274), to the integer
RandomParts == {0, 999}

\* lines 283-313: the template literal; its fixed text is the same in every
\* prompt, and its holes are count, difficultyDesc, categoryDesc and
\* randomTopic.  randomSeed (line 274) is computed and not used; other holds
\* what else goes into the text.
PromptWithSeed(category, difficulty, count, randomSeed, randomTopic) ==
    [count |-> count, difficultyDesc |-> DifficultyDesc(difficulty),
     categoryDesc |-> CategoryDesc(category), randomTopic |-> randomTopic,
     other |-> <<randomSeed>>]
Prompt(category, difficulty, count, randomSeed, randomTopic) ==
    [count |-> count, difficultyDesc |-> DifficultyDesc(difficulty),
     categoryDesc |-> CategoryDesc(category), randomTopic |-> randomTopic,
     other |-> <<>>]

PromptInit ==
    /\ API_TOKEN = TRUE /\ REPO_ID = FALSE
    /\ file = <<>> /\ call = Idle /\ saves = <<>> /\ settled = <<>>
    /\ now = 0 /\ starts = 0
    /\ unhandled = FALSE /\ quiz = QuizIdle
    /\ probe \in [category : TableCategories \cup {"null"}, difficulty : TableDifficulties,
                   count : 1..MaxCount, prompts : {<<>>}]

\* lines 274-313: one more generation with the arguments of probe;
\* Math.floor(Math.random() * uniqueTopics.length) is any index of uniqueTopics
BuildPrompt ==
    /\ Len(probe.prompts) < 2
    /\ \E random \in RandomParts, topic \in 1..Len(uniqueTopics) :
          probe' = [probe EXCEPT !.prompts =
                      Append(@, Prompt(probe.category, probe.difficulty, probe.count,
                                       now + random, uniqueTopics[topic]))]
    /\ UNCHANGED <<API_TOKEN, REPO_ID, file, call, saves, settled, now, starts,
                   unhandled, quiz>>

PromptNext == BuildPrompt
PromptSpec == PromptInit /\ [][PromptNext]_vars

----------------------------------------------------------------------------
(* The pipeline without an API token, with the question counts of the       *)
(* settings panel                                                           *)

\* HalluciQuiz.jsx line 37
questionCountOptions == {5, 10, 20}

NoTokenInit ==
    /\ API_TOKEN = FALSE /\ REPO_ID \in BOOLEAN
    /\ file = <<>> /\ call = Idle /\ saves = <<>> /\ settled = <<>>
    /\ now = 0 /\ starts = 0
    /\ unhandled = FALSE /\ quiz = QuizIdle
    /\ ProbeIdle

StartPanel ==
    \E category \in TableCategories \cup {"null"}, difficulty \in TableDifficulties,
       count \in questionCountOptions : Start(category, difficulty, count)

NoTokenNext == StartPanel
NoTokenSpec == NoTokenInit /\ [][NoTokenNext]_vars

----------------------------------------------------------------------------
(* The pipeline: the quiz starts of one session against one dataset repo *)

Init ==
    /\ API_TOKEN \in BOOLEAN /\ REPO_ID \in BOOLEAN
    /\ file = <<>> /\ call = Idle /\ saves = <<>> /\ settled = <<>>
    /\ now = 0 /\ starts = 0
    /\ unhandled = FALSE /\ quiz = QuizIdle
    /\ ProbeIdle

StartQuiz ==
    \E r \in Requests, count \in 1..MaxCount : Start(r.category, r.difficulty, count)
RepoRace == \E outcome \in RaceOutcomes : RepoRaceSettles(outcome)
Inference ==
    /\ \E response \in InferenceResponses : InferenceSettles(response)
    /\ UNCHANGED probe
SaveRead ==
    /\ \E s \in 1..Len(saves), outcome \in {"stored", "missing", "failed"} :
          SaveReadSettles(s, outcome)
    /\ UNCHANGED settled
SaveCommit ==
    /\ \E s \in 1..Len(saves), accepted \in BOOLEAN : SaveCommitSettles(s, accepted)
    /\ UNCHANGED settled

Next ==
    \/ StartQuiz
    \/ RepoRace
    \/ Inference
    \/ RetryTimerFires
    \/ SaveRead
    \/ SaveCommit

Spec == Init /\ [][Next]_vars

\* the same session against a dataset repo that holds what earlier sessions
\* saved
SharedRepoInit ==
    /\ API_TOKEN = TRUE /\ REPO_ID = TRUE
    /\ file \in StoredFiles
    /\ call = Idle /\ saves = <<>> /\ settled = <<>>
    /\ now = 0 /\ starts = 0
    /\ unhandled = FALSE /\ quiz = QuizIdle
    /\ ProbeIdle

SharedRepoSpec == SharedRepoInit /\ [][Next]_vars

\* every request is answered in the end (the race of lines 224-227 settles,
\* the fetch of line 332 settles) and the timer of line 364 fires; the user
\* is not bound to start a quiz
LiveSpec ==
    /\ Spec
    /\ WF_vars(RepoRace) /\ WF_vars(Inference) /\ WF_vars(RetryTimerFires)
    /\ WF_vars(SaveRead) /\ WF_vars(SaveCommit)

----------------------------------------------------------------------------
(* saveQuestionsToRepo called directly, with a log of the settled calls *)

\* batches as the parse stage builds them
SaveBatches ==
    { ParseStage(ArrayOf(entries), "science", "easy", Len(entries),
                 [i \in 1..Len(entries) |-> 0]).value :
      entries \in {<<GoodMC>>, <<Bare>>, <<GoodMC, GoodTF>>, <<GoodTF, Bare>>} }

SaveInit ==
    /\ API_TOKEN = TRUE /\ REPO_ID = TRUE
    /\ file = <<>> /\ call = Idle /\ saves = <<>> /\ settled = <<>>
    /\ now = 0 /\ starts = 0
    /\ unhandled = FALSE /\ quiz = QuizIdle
    /\ ProbeIdle

\* lines 914-936: the call passes the guard and sends its read request
DispatchSave(questions) ==
    /\ Len(saves) + Len(settled) < MaxSaves
    /\ saves' = Append(saves, NewSave(questions))
    /\ UNCHANGED <<API_TOKEN, REPO_ID, file, call, settled, now, starts, probe, unhandled, quiz>>

SaveReadLogged ==
    \E s \in 1..Len(saves), outcome \in {"stored", "missing", "failed"} :
       /\ SaveReadSettles(s, outcome)
       /\ LET after == AfterRead(saves[s], outcome, file)
          IN  settled' = IF after.pc = "done" THEN Append(settled, after) ELSE settled

SaveCommitLogged ==
    \E s \in 1..Len(saves), accepted \in BOOLEAN :
       /\ SaveCommitSettles(s, accepted)
       /\ settled' = Append(settled, AfterCommit(saves[s], accepted))

DispatchAny == \E questions \in SaveBatches : DispatchSave(questions)
\* a call is made only when the calls before it have settled
DispatchAlone == saves = <<>> /\ DispatchAny

SaveNext == DispatchAny \/ SaveReadLogged \/ SaveCommitLogged
SaveSpec == SaveInit /\ [][SaveNext]_vars

SerialSaveNext == DispatchAlone \/ SaveReadLogged \/ SaveCommitLogged
SerialSaveSpec == SaveInit /\ [][SerialSaveNext]_vars

----------------------------------------------------------------------------
(* The success path of generateQuestionsWithAI on its own: calls whose     *)
(* inference request is answered by a success body, with the body given    *)
(* kept in probe                                                           *)

\* an entry whose type and explanation are empty strings
Blank == Entry("", <<"Q", "4">>, <<>>, "true", "", "undefined", "undefined")
\* an entry whose question text holds three backticks
Ticked == Entry("true-false", <<"Q", "backticks", "3">>, <<>>, "true", "text",
                "undefined", "undefined")

\* the text inside a fenced code block, between two pieces of prose (the
\* second one ending in a ] for "prose]"), or bare
Wrap(wrap, text) ==
    CASE wrap = "json"  -> <<Tok("fenceJson"), Tok("ws")>> \o text \o <<Tok("ws"), Tok("fence")>>
      [] wrap = "plain" -> <<Tok("fence"), Tok("ws")>> \o text \o <<Tok("ws"), Tok("fence")>>
      [] wrap = "prose" -> <<Tok("prose"), Tok("ws")>> \o text \o <<Tok("ws"), Tok("prose")>>
      [] wrap = "prose]" ->
            <<Tok("prose"), Tok("ws")>> \o text \o <<Tok("ws"), Tok("prose"), Tok("rbracket")>>
      [] OTHER          -> text

\* the body that carries the text at the place the shape names
BodyOf(shape, text) ==
    CASE shape = "array.generated_text"       -> ArrayBody(<<Element(text, <<>>)>>)
      [] shape = "array.text"                 -> ArrayBody(<<Element(<<>>, text)>>)
      [] shape = "array.blank+text"           -> ArrayBody(<<Element(<<Tok("ws")>>, text)>>)
      [] shape = "array.no text"              -> ArrayBody(<<Element(<<>>, <<>>)>>)
      [] shape = "array.empty"                -> ArrayBody(<<>>)
      [] shape = "object.generated_text"      -> ObjectBody(text, <<>>)
      [] shape = "object.blank"               -> ObjectBody(<<Tok("ws")>>, <<>>)
      [] shape = "object.no text"             -> ObjectBody(<<>>, <<>>)
      [] shape = "object.0.generated_text"    -> ObjectBody(<<>>, <<Element(text, <<>>)>>)
      [] OTHER (* "object.0.text" *)          -> ObjectBody(<<>>, <<Element(<<>>, text)>>)

BodyShapes ==
    {"array.generated_text", "array.text", "array.blank+text", "array.no text",
     "array.empty", "object.generated_text", "object.blank", "object.no text",
     "object.0.generated_text", "object.0.text"}

ParseEntryLists ==
    {<<GoodMC>>, <<GoodMC, GoodTF>>, <<GoodMC, GoodTF, Bare>>, <<Bare>>,
     <<Blank, GoodMC>>, <<Ticked>>, <<>>}

\* array says whether the text is that of a JSON array, and entries are its
\* elements then
ParseCases ==
    { [shape |-> "array.generated_text", wrap |-> w, array |-> TRUE, entries |-> es,
       text |-> Wrap(w, ArrayOf(es))] :
      w \in {"none", "json", "plain"}, es \in ParseEntryLists }
    \cup { [shape |-> "array.generated_text", wrap |-> w, array |-> TRUE, entries |-> es,
            text |-> Wrap(w, ArrayOf(es))] :
           w \in {"prose", "prose]"}, es \in ParseEntryLists \ {<<Ticked>>} }
    \cup { [shape |-> sh, wrap |-> "none", array |-> TRUE, entries |-> <<GoodMC, GoodTF>>,
            text |-> ArrayOf(<<GoodMC, GoodTF>>)] : sh \in BodyShapes }
    \cup { [shape |-> "array.generated_text", wrap |-> "none", array |-> FALSE,
            entries |-> <<>>, text |-> <<Tok(k)>>] : k \in {"prose", "object"} }

ResponseOf(c) == [kind |-> "ok", error |-> "undefined", data |-> BodyOf(c.shape, c.text)]

ParseIdle == [called |-> FALSE]

ParseInit ==
    /\ API_TOKEN = TRUE /\ REPO_ID = FALSE
    /\ file = <<>> /\ call = Idle /\ saves = <<>> /\ settled = <<>>
    /\ now = 0 /\ starts = 0
    /\ unhandled = FALSE /\ quiz = QuizIdle
    /\ probe = ParseIdle

ParseInference ==
    \E c \in ParseCases :
       /\ InferenceSettles(ResponseOf(c))
       /\ probe' = [called |-> TRUE, case |-> c]

ParseNext == StartQuiz \/ ParseInference
ParseSpec == ParseInit /\ [][ParseNext]_vars

----------------------------------------------------------------------------
(* Claims about generateFallbackQuestions *)

DistinctIds(qs) == \A i, j \in 1..Len(qs) : i # j => qs[i].id # qs[j].id

ProbeFiltered == FilterByRequest(fallbackQuestions, probe.category, probe.difficulty)

\* C4: for a category among the four or none, a difficulty among the three or
\* none and count > 0 with a non-empty filtered table, generateFallbackQuestions
\* returns exactly count entries with pairwise distinct ids, sliced or padded.
C4_FallbackCountAndIds ==
    (/\ probe.called
     /\ probe.category \in TableCategories \cup {"null"}
     /\ probe.difficulty \in TableDifficulties \cup {"null"}
     /\ ProbeFiltered # <<>>)
    => /\ ~probe.out.threw
       /\ Len(probe.out.value) = probe.count
       /\ DistinctIds(probe.out.value)

\* the padded case: more entries asked for than the filtered table holds
C4_WitnessPadded ==
    /\ probe.called
    /\ probe.category = "science" /\ probe.difficulty = "easy"
    /\ probe.count > Len(ProbeFiltered)
    /\ Len(probe.out.value) = probe.count

\* C5: with no table entry matching, generateFallbackQuestions returns the
\* empty sequence and does not throw.
C5_FallbackTotal ==
    (probe.called /\ ProbeFiltered = <<>>)
    => (~probe.out.threw /\ probe.out.value = <<>>)

----------------------------------------------------------------------------
(* Claims about generateQuestionsWithAI (Spec) *)

Matches(q, category, difficulty) ==
    /\ Truthy(category) => q.category = category
    /\ Truthy(difficulty) => q.difficulty = difficulty

CallFallbackValue == generateFallbackQuestions(call.category, call.difficulty, call.count)

\* C1: the answer 'loading' is retried once only: when the retried request is
\* answered 'loading' too, the call does not wait and retry again (so one call
\* makes at most two inference requests).
C1_RetriesOnce == ~(call.pc = "awaitRetryDelay" /\ call.retried)

\* the schema of a question: a known type, four options and an index into them
\* for multiple-choice, a boolean for true-false
WellFormed(q) ==
    /\ q.type \in {"multiple-choice", "true-false"}
    /\ q.type = "multiple-choice" =>
          /\ q.options # <<>> /\ Len(q.options[1]) = 4
          /\ q.correct \in {"0", "1", "2", "3"}
    /\ q.type = "true-false" => q.correct \in {"true", "false"}

\* C2: every question the parse stage returns satisfies the schema.
C2_ParsedWellFormed ==
    (call.pc = "resolved" /\ call.via = "ai")
    => \A q \in Range(call.result) : WellFormed(q)

\* C3: the call never rejects, and it resolves to a non-empty sequence unless
\* the fallback table has no entry for the category and difficulty.
C3_NeverRejectsNeverEmpty ==
    /\ call.pc # "rejected"
    /\ call.pc = "resolved" =>
          \/ call.result # <<>>
          \/ FilterByRequest(fallbackQuestions, call.category, call.difficulty) = <<>>

\* C6: a text that is no JSON, or JSON that is no array, ends the call with the
\* fallback questions: it resolves to generateFallbackQuestions(category,
\* difficulty, count), does not reject and dispatches no save.
C6_ParseFailureFallsBack ==
    call.error \in {"parse", "not an array"}
    => /\ call.pc = "resolved"
       /\ call.via = "fallback"
       /\ ~CallFallbackValue.threw
       /\ call.result = CallFallbackValue.value
       /\ call.dispatched = 0

C6_WitnessParseFailure ==
    /\ call.error = "parse"
    /\ call.pc = "resolved"
    /\ REPO_ID
    /\ Len(call.result) = call.count

\* C9: without an API token the call makes no request (no dataset load, no
\* inference request, no save) and resolves to
\* generateFallbackQuestions(category, difficulty, count).
C9_NoTokenFallbackOnly ==
    ~API_TOKEN
    => /\ call.loads = 0 /\ call.inferences = 0 /\ call.dispatched = 0
       /\ ~call.retried
       /\ saves = <<>>
       /\ call.pc \in {"idle", "resolved"}
       /\ call.pc = "resolved" =>
             /\ call.via = "fallback"
             /\ call.result = CallFallbackValue.value

C9_WitnessNoToken ==
    /\ ~API_TOKEN /\ REPO_ID
    /\ call.pc = "resolved"
    /\ call.category = "science" /\ call.count = 2
    /\ Len(call.result) = 2

Injective(p) == \A i, j \in 1..Len(p) : i # j => p[i] # p[j]

\* C10: when the loaded file holds at least count entries matching the
\* request, the call returns count distinct stored entries, all matching, and
\* makes neither an inference request nor a save; and only then does it return
\* stored entries.
C10_RepoHit ==
    LET stored == call.repoQuestions
        matching == {i \in 1..Len(stored) :
                        Matches(stored[i], call.category, call.difficulty)}
        hit == /\ call.pc = "resolved" /\ call.via = "repo"
               /\ Len(call.result) = call.count
               /\ Len(call.picked) = call.count
               /\ Injective(call.picked)
               /\ \A i \in 1..call.count :
                     /\ call.picked[i] \in matching
                     /\ call.result[i] = stored[call.picked[i]]
               /\ call.inferences = 0 /\ call.dispatched = 0
    IN  /\ (call.pc # "awaitRepo" /\ Cardinality(matching) >= call.count) => hit
        /\ call.via = "repo" => hit

C10_WitnessRepoHit ==
    /\ call.pc = "resolved" /\ call.via = "repo"
    /\ Len(call.repoQuestions) > call.count

----------------------------------------------------------------------------
(* Claims about saveQuestionsToRepo (SaveSpec, SerialSaveSpec) *)

\* C7: with the calls made one after the other on a file that starts empty, no
\* two stored entries have question texts that are equal up to letter case.
C7_NoDuplicateTexts ==
    \A i, j \in 1..Len(file) :
        i # j => ToLowerCase(file[i].question) # ToLowerCase(file[j].question)

Saved(i) == settled[i].outcome = "saved"

\* C8: the later of two accepted commits overwrites the earlier one: after it
\* the file holds none of the earlier call's new questions, except those the
\* later call had read or had been given itself.
C8_LaterCommitOverwrites ==
    \A i, j \in 1..Len(settled) :
        (/\ i < j /\ Saved(i) /\ Saved(j)
         /\ \A k \in (j + 1)..Len(settled) : ~Saved(k))
        => \A q \in Range(settled[i].newQuestions) :
              (/\ q \notin Range(settled[j].existingQuestions)
               /\ q \notin Range(settled[j].newQuestions))
              => q \notin Range(file)

\* two calls that both read the file while it did not exist yet, both
\* committed, all calls settled, and a new question of the first is gone
C8_WitnessLostUpdate ==
    /\ saves = <<>>
    /\ \E i, j \in 1..Len(settled) :
          /\ i < j /\ Saved(i) /\ Saved(j)
          /\ settled[i].read = "missing" /\ settled[j].read = "missing"
          /\ \E q \in Range(settled[i].newQuestions) : q \notin Range(file)

----------------------------------------------------------------------------
(* Claims about the background save and the requests of one call (Spec) *)

\* C11: after a successful parse with a repo configured the call resolves with
\* the parsed questions while the save it dispatched is still in progress; a
\* step of a save (its read or its commit settling, with any outcome) leaves
\* the call as it is, resolved value included; the call does not reject, and
\* no rejection of a save is left unhandled.
C11_SaveInBackground ==
    /\ [](/\ call.dispatched > 0 =>
                /\ call.pc = "resolved" /\ call.via = "ai"
                /\ call.result # <<>>
           /\ call.pc # "rejected"
           /\ ~unhandled)
    /\ [][(SaveRead \/ SaveCommit) => call' = call]_vars

\* the call has resolved with the parsed questions, its save has settled, and
\* the file still does not exist: the commit of the save was refused
C11_WitnessSaveFailed ==
    /\ starts = 1 /\ call.pc = "resolved" /\ call.via = "ai"
    /\ call.dispatched = 1 /\ call.result # <<>>
    /\ saves = <<>> /\ file = <<>>

\* the requests of the current call that have been sent and not answered
OutstandingRequests ==
    (IF call.pc = "awaitRepo" \/ call.loadPending THEN 1 ELSE 0)
    + (IF call.pc = "awaitInference" THEN 1 ELSE 0)

\* C12: up to the dispatch of the save, at most one request of the call is
\* outstanding at any time: the inference request is not sent while the
\* dataset load of the same call is unanswered.
C12_OneRequestOutstanding == OutstandingRequests <= 1

\* C13: an error status whose payload does not say 'loading' is not retried:
\* the step in which such an answer arrives resolves the call to
\* generateFallbackQuestions(category, difficulty, count), with one inference
\* request made and no save dispatched.
C13_NoRetryOnOtherStatus ==
    /\ [][\A response \in InferenceResponses :
            (/\ response.kind = "status" /\ response.error # "loading"
             /\ InferenceSettles(response))
            => /\ call'.pc = "resolved" /\ call'.via = "fallback"
               /\ call'.error = "status"
               /\ call'.result = generateFallbackQuestions(call.category, call.difficulty,
                                                           call.count).value
               /\ call'.inferences = 1 /\ call'.dispatched = 0]_vars
    /\ [](call.error = "status" => call.pc = "resolved" /\ call.via = "fallback")

C13_WitnessStatusError ==
    /\ call.error = "status" /\ call.pc = "resolved"
    /\ call.count = 2 /\ Len(call.result) = 2
    /\ ~call.retried

----------------------------------------------------------------------------
(* Claims about the success path (ParseSpec) *)

\* questions without what the clock gives them
Strip(qs) == [i \in 1..Len(qs) |-> [qs[i] EXCEPT !.id = 0, !.generatedAt = <<>>]]

\* the current call has settled on the body kept in probe
ParseSettled == probe.called /\ call.pc \in {"resolved", "rejected"}

ProbeData == BodyOf(probe.case.shape, probe.case.text)

\* the call ended as the parse stage ends on this raw text: with its questions,
\* or with the fallback questions when it fails
ParsedFrom(text) ==
    LET r == ParseStage(text, call.category, call.difficulty, call.count,
                        [i \in 1..call.count |-> 0])
    IN  IF r.threw
        THEN call.via = "fallback" /\ call.result = CallFallbackValue.value
        ELSE call.via = "ai" /\ Strip(call.result) = Strip(r.value)

\* the call ended as it does on the raw text chosen (trimmed), which is no
\* text at all when chosen is empty
EndsOn(chosen) ==
    /\ call.pc = "resolved"
    /\ IF Trim(chosen) = <<>>
       THEN call.via = "fallback" /\ call.result = CallFallbackValue.value
       ELSE ParsedFrom(Trim(chosen))

\* the text field of the first element of an array body
FirstElementText(data) ==
    IF ZeroText(data, "generated_text") # <<>> THEN ZeroText(data, "generated_text")
    ELSE ZeroText(data, "text")

\* C14, as claimed: the raw text is the text field of the first element of an
\* array body, or the text field of an object body; every other body (the
\* empty array, a missing or empty text field) ends with the fallback
\* questions.
C14_TextFromArrayOrObject ==
    ParseSettled =>
        EndsOn(IF ProbeData.isArray THEN FirstElementText(ProbeData)
               ELSE ProbeData.generated_text)

\* C14, amended: a third shape yields raw text too, the object that has no
\* generated_text of its own and whose property "0" has one.
C14_TextFromThreeShapes ==
    ParseSettled =>
        EndsOn(IF ProbeData.isArray THEN FirstElementText(ProbeData)
               ELSE IF ProbeData.generated_text # <<>> THEN ProbeData.generated_text
               ELSE ZeroText(ProbeData, "generated_text"))

\* questions were parsed from the text field of an array's first element
C14_WitnessArrayText ==
    /\ ParseSettled /\ probe.case.shape = "array.text"
    /\ call.via = "ai" /\ Len(call.result) = 2

\* C15: a JSON array inside a fenced code block (```json ... ``` or
\* ``` ... ```) gives the questions that the same array text gives without
\* the fence (ids and timestamps apart), for every array content.
C15_FenceTransparent ==
    (/\ ParseSettled /\ probe.case.array
     /\ probe.case.shape = "array.generated_text"
     /\ probe.case.wrap \in {"json", "plain"})
    => /\ call.pc = "resolved"
       /\ ParsedFrom(ArrayOf(probe.case.entries))

\* what JSON.parse gives for the generated text kept in probe
ProbeParsed == JSONParse(ExtractArray(StripFence(Trim(probe.case.text))))

Min(a, b) == IF a < b THEN a ELSE b

BuiltFrom(q, e, Defaulted(_)) ==
    /\ q.difficulty = call.difficulty
    /\ q.category = (IF call.category = "null" THEN "mixed" ELSE call.category)
    /\ q.type = (IF Defaulted(e.type) THEN "multiple-choice" ELSE e.type)
    /\ q.options = (IF e.options = <<>> THEN << <<>> >> ELSE e.options)
    /\ q.explanation = (IF Defaulted(e.explanation) THEN "No explanation provided."
                        ELSE e.explanation)
    /\ q.question = e.question
    /\ q.correct = e.correct

AllBuiltFrom(Defaulted(_)) ==
    (/\ ParseSettled /\ probe.case.shape = "array.generated_text" /\ call.via = "ai")
    => \A i \in 1..Len(call.result) :
          BuiltFrom(call.result[i], ProbeParsed.value[i], Defaulted)

\* C17, as claimed: the defaults stand in for the fields the entry lacks.
C17_DefaultsWhenAbsent == AllBuiltFrom(LAMBDA v : v = "undefined")

\* C17, amended: the defaults of type and explanation stand in for every
\* falsy value, the empty string included.
C17_DefaultsWhenFalsy == AllBuiltFrom(LAMBDA v : ~Truthy(v))

\* an entry with a category and a difficulty of its own and nothing but a
\* question, built for a request without category
C17_WitnessOverride ==
    /\ ParseSettled /\ probe.case.entries = <<Bare>> /\ call.via = "ai"
    /\ call.category = "null" /\ call.difficulty = "easy"
    /\ call.result[1].category = "mixed" /\ call.result[1].difficulty = "easy"
    /\ call.result[1].type = "multiple-choice"

----------------------------------------------------------------------------
(* Claims about loadQuestionsFromRepo (LoadSpec) *)

\* C18: loadQuestionsFromRepo never throws; it returns the stored array when
\* the fetch succeeds with an array body (and both credentials are given), and
\* the empty sequence on a 404, another error status, a network failure and a
\* body that is no array.
C18_LoadNeverThrows ==
    probe.called
    => /\ ~probe.out.threw
       /\ probe.out.value =
             (IF /\ API_TOKEN /\ REPO_ID
                 /\ probe.response.kind = "ok" /\ probe.response.detail = "array"
              THEN file ELSE <<>>)

\* a body that is no JSON, for which response.json() rejects inside the try
C18_WitnessBadBody ==
    /\ probe.called /\ API_TOKEN /\ REPO_ID
    /\ probe.response = LoadResponse("ok", "invalid")
    /\ probe.out.value = <<>>

----------------------------------------------------------------------------
(* The component: a session of HalluciQuiz without a dataset repo *)

\* what the settings panel can select for the category (a subset)
QuizCategories == {"null", "science"}

QuizInit ==
    /\ API_TOKEN \in BOOLEAN /\ REPO_ID = FALSE
    /\ file = <<>> /\ call = Idle /\ saves = <<>> /\ settled = <<>>
    /\ now = 0 /\ starts = 0
    /\ unhandled = FALSE /\ quiz = QuizIdle
    /\ ProbeIdle

\* an entry whose correct is the JSON value null
NullCorrect == Entry("true-false", <<"Q", "5">>, <<>>, "null", "text",
                     "undefined", "undefined")

\* the answers to the inference request of a quiz: those of the pipeline, and
\* a text with such an entry
QuizResponses ==
    InferenceResponses
    \cup { [kind |-> "ok", error |-> "undefined",
            data |-> ArrayBody(<<Element(ArrayOf(<<NullCorrect, GoodTF>>), <<>>)>>)] }

QuizInference ==
    /\ \E response \in QuizResponses : InferenceSettles(response)
    /\ UNCHANGED probe

ClickStart == \E category \in QuizCategories, count \in 1..MaxCount : StartQuizClick(category, count)
ClickDifficulty == \E key \in {"easy", "medium", "hard"} : SelectDifficulty(key)
ClickAnswer == \E answerIndex \in AnswerButtons(quiz) : handleAnswerSelect(answerIndex)

QuizNext ==
    \/ ClickStart
    \/ QuizInference
    \/ RetryTimerFires
    \/ StartQuizSettles
    \/ ClickDifficulty
    \/ ClickAnswer
    \/ Tick
    \/ TimeUp
    \/ nextQuestion
    \/ resetQuiz

QuizSpec == QuizInit /\ [][QuizNext]_vars

----------------------------------------------------------------------------
(* Claims about the prompt (PromptSpec) *)

\* C19, as claimed: two generations with the same category, difficulty and
\* count send the same prompt.
C19_PromptPure ==
    \A i, j \in 1..Len(probe.prompts) : probe.prompts[i] = probe.prompts[j]

\* C19, amended: they send prompts that differ in the focus topic at most,
\* which is one of the ten of uniqueTopics.
C19_PromptPureButTopic ==
    \A i, j \in 1..Len(probe.prompts) :
        /\ [probe.prompts[i] EXCEPT !.randomTopic = "any"]
              = [probe.prompts[j] EXCEPT !.randomTopic = "any"]
        /\ probe.prompts[i].randomTopic \in Range(uniqueTopics)

\* two generations for the same arguments with different topics
C19_WitnessTwoTopics ==
    /\ Len(probe.prompts) = 2
    /\ probe.prompts[1].randomTopic # probe.prompts[2].randomTopic
    /\ probe.prompts[1].count = probe.prompts[2].count

----------------------------------------------------------------------------
(* Claims about the component (QuizSpec) *)

\* C20: a started quiz has a non-empty question list and
\* 0 <= currentQuestion < questions.length; when the call of startQuiz
\* resolves to an empty list or rejects, the quiz stays un-started,
\* questionError is set to a message and isLoadingQuestions is false again.
C20_StartedQuizHasQuestions ==
    /\ [](quiz.quizStarted =>
            /\ quiz.questions # <<>>
            /\ quiz.currentQuestion >= 0
            /\ quiz.currentQuestion < Len(quiz.questions))
    /\ [](quiz.isLoadingQuestions =>
            LET after == AfterGenerate(quiz, [call EXCEPT !.pc = "rejected"])
            IN  /\ ~after.quizStarted /\ ~after.isLoadingQuestions
                /\ after.questionError = "Failed to generate questions. Please try again.")
    /\ [][(/\ quiz.isLoadingQuestions /\ ~quiz'.isLoadingQuestions
           /\ (call.pc = "rejected" \/ call.result = <<>>))
          => /\ ~quiz'.quizStarted
             /\ Truthy(quiz'.questionError)
             /\ ~quiz'.isLoadingQuestions]_vars

\* a start whose call resolved to the empty list ended with the message
C20_WitnessEmptyResult ==
    /\ call.pc = "resolved" /\ call.result = <<>>
    /\ ~quiz.isLoadingQuestions /\ ~quiz.quizStarted
    /\ quiz.questionError = "No questions could be generated. Please try again."

\* the last question of a started quiz of two is on screen
C20_WitnessLastQuestion ==
    /\ quiz.quizStarted /\ Len(quiz.questions) = 2 /\ quiz.currentQuestion = 1

----------------------------------------------------------------------------
(* Claims about the calls without a token (NoTokenSpec) *)

\* C21: without an API token the questions returned are fallback questions,
\* and never more than 5 of them, whichever count (5, 10 or 20) is requested.
C21_NoTokenAtMostFive ==
    (~API_TOKEN /\ call.pc = "resolved")
        => call.via = "fallback" /\ Len(call.result) <= 5

----------------------------------------------------------------------------
(* Claims about termination (LiveSpec) *)

\* the call is waiting for an answer or for a timer
InFlight == call.pc \in {"awaitRepo", "awaitInference", "awaitRetryDelay"}

\* C22: when every request is answered in the end and every timer fires,
\* every call of generateQuestionsWithAI resolves in the end, also when the
\* inference endpoint keeps answering 'model loading'.
C22_EveryCallResolves == InFlight ~> (call.pc = "resolved")

----------------------------------------------------------------------------
(* Claims about what a commit keeps (SerialSaveSpec) *)

\* C23: a commit of saveQuestionsToRepo, whatever the outcome of the call's
\* own read of the file, writes every entry that was stored, in the prior
\* order, followed by the new entries: with saves that do not overlap no
\* stored question is ever removed.
C23_CommitKeepsStored ==
    [][/\ Len(file') >= Len(file)
       /\ SubSeq(file', 1, Len(file)) = file]_vars

----------------------------------------------------------------------------
(* Claims about what is passed to saveQuestionsToRepo (Spec) *)

\* C24: saveQuestionsToRepo is called only with a non-empty batch of
\* questions built from an inference response (source 'ai-generated'); a call
\* that returns fallback questions or questions of the repo dispatches no
\* save, and a call that dispatched one returns the batch it built.
C24_SavesOnlyGenerated ==
    /\ \A s \in 1..Len(saves) :
          /\ saves[s].questions # <<>>
          /\ \A q \in Range(saves[s].questions) : q.source = "ai-generated"
    /\ call.via \in {"fallback", "repo"} => call.dispatched = 0
    /\ call.dispatched > 0 =>
          /\ call.via = "ai" /\ call.result # <<>>
          /\ \A q \in Range(call.result) : q.source = "ai-generated"
    /\ call.dispatched <= 1

\* a call resolved with fallback questions, with a repo configured, while the
\* save of an earlier call is in progress
C24_WitnessFallbackBesideSave ==
    /\ REPO_ID /\ API_TOKEN
    /\ call.pc = "resolved" /\ call.via = "fallback" /\ call.result # <<>>
    /\ Len(saves) = 1

----------------------------------------------------------------------------
(* Claims about the ids of the questions returned (SharedRepoSpec) *)

\* C25: the questions of a sequence returned by generateQuestionsWithAI have
\* pairwise distinct ids, whether it comes from the inference response, from
\* the fallback table or from the dataset file that earlier generations and
\* saves built up.
C25_ReturnedIdsDistinct == call.pc = "resolved" => DistinctIds(call.result)

----------------------------------------------------------------------------
(* Claims about overlapping saves of one session (Spec) *)

\* C26: at most one saveQuestionsToRepo call of the session is in progress at
\* any time: the save dispatched by a later quiz start does not begin while
\* the save of an earlier quiz start is unfinished.
C26_OneSaveInProgress == Len(saves) <= 1

----------------------------------------------------------------------------
(* Claims about an array between prose (ParseSpec) *)

\* C27: for a generated text of the form prose, JSON array, prose (no code
\* fence) the parse stage parses exactly that array, also when the prose
\* after it holds a ].
C27_ArrayBetweenProse ==
    (/\ ParseSettled /\ probe.case.array
     /\ probe.case.shape = "array.generated_text"
     /\ probe.case.wrap \in {"prose", "prose]"})
    => /\ call.pc = "resolved"
       /\ ParsedFrom(ArrayOf(probe.case.entries))

----------------------------------------------------------------------------
(* Claims about the timer and the score (QuizSpec) *)

\* C28: when the timer of a question reaches 0 with no answer selected, the
\* question is closed (showResult true, selectedAnswer null) and the score
\* stays as it is, for every question the service can hand over.
C28_TimeUpScoresNothing ==
    [][TimeUp => /\ quiz'.showResult
                 /\ quiz'.selectedAnswer = "null"
                 /\ quiz'.score = quiz.score]_vars

\* C29: the score is at most questions.length x points(selectedDifficulty),
\* the 'possible points' of the final screen, also when the difficulty is
\* changed in the settings panel while a quiz is in progress.
C29_ScoreWithinPossible ==
    quiz.score <= Len(quiz.questions) * Points(quiz.selectedDifficulty)

\* C30: after an answer or the expiry of the timer on any question, the
\* last one included, the component shows that question's result view
\* (explanation and Next Question / Finish Quiz button) until nextQuestion is
\* called; the Quiz Complete screen is reached through that button only.
C30_ResultViewUntilNext ==
    /\ [][(View(quiz) = "question" /\ quiz'.showResult) => View(quiz') = "result"]_vars
    /\ [][(View(quiz) = "result" /\ View(quiz') # "result") => nextQuestion]_vars
    /\ [][(View(quiz) # "complete" /\ View(quiz') = "complete")
           => (View(quiz) = "result" /\ nextQuestion)]_vars

=============================================================================
